---- MODULE Spec2Model ----
(***************************************************************************)
(* A model of the incremental download / merge scripts of lightstock.      *)
(*                                                                         *)
(* A pandas DataFrame is a record [kind, dtype, rows]:                     *)
(*   kind  = "None"   the Python value None                                *)
(*           "empty"  pd.DataFrame(): no columns, no rows                  *)
(*           "df"     a frame with the K-line columns (rows may be <<>>)   *)
(*           "raise"  the call raised instead of returning                 *)
(*   dtype = "str"    the date column holds 'YYYY-MM-DD' strings           *)
(*           "dt"     the date column holds datetime64 values              *)
(* A date string is modelled by its day number, a datetime by a number of  *)
(* ticks (TicksPerDay per day), so parsing multiplies and formatting       *)
(* divides.  A row keeps the date, close (standing for the fetched         *)
(* open/high/low/close/volume/amount values), pc (the column 昨收) and chg   *)
(* (the column 涨跌额, standing for the columns derived from 昨收).  A         *)
(* nullable value is <<>> (NaN) or <<v>>.                                  *)
(***************************************************************************)
EXTENDS Integers, Sequences, FiniteSets, TLC

VARIABLES
    NUM_PROCESSES, \* worker processes of the pool (mp.cpu_count())
    tasks,        \* the state of the indicator task of every input file
    results,      \* how many results process_batch has collected
    output_files, \* data/technical_indicators: "absent", "old" or "new" per symbol
    reads,        \* the files the rating phase has read, with their state
    snapshot,     \* data/daily_snapshot/latest.parquet (<<>> when not written)
    first_run,    \* the files as the first of two runs left them (<<>> before)
    daily_bars,   \* the table daily_bars: the (symbol, date) keys it holds
    date_to_process,   \* the date the backfill loop is at
    records_for_today, \* the records fetched for date_to_process
    runs,         \* how many times the backfill job has been started
    retry_count,  \* the argument retry_count of the running download_kline_data
    attempts,     \* upstream queries made for the code being processed
    bars,         \* the bar series of one symbol handed to the indicator code
    period,       \* the window length the function under study is called with
    ind,          \* what the indicator code returned for bars
    market,       \* the indicator file of every symbol, as the ranker sees it
    files,        \* the parquet file of each stock code (None when there is none)
    now,          \* the wall clock, in ticks
    END_DATE,     \* today's date as evaluated when the script is loaded
    force_full_download,  \* INCREMENTAL_CONFIG['force_full_download']
    stock_codes,  \* the list main iterates over
    idx,          \* index of the next stock code of the loop (i in main)
    stats,        \* the counters of the run summary
    latest_date,  \* latest stored date of the code being processed
    today,        \* datetime.now() as read by calculate_download_range
    start_date,   \* the resolved window and whether a download is needed
    end_date,
    need_download,
    df_existing,  \* the stored series handed to the merge (None when no file)
    df_new,       \* the freshly downloaded series
    df_final,     \* the result of merge_data(df_existing, df_new)
    df_other,     \* a second downloaded window
    remerged,     \* the result of a second merge applied to df_final
    swapped,      \* the two windows merged in the other order
    added,        \* the return value of update_or_append
    step          \* position of the caller

mergeVars == <<df_existing, df_new, df_final>>
orderVars == <<df_other, remerged, swapped>>
rangeVars == <<latest_date, today, start_date, end_date, need_download>>
runVars == <<now, END_DATE, force_full_download, stock_codes, idx, stats>>
engineVars == <<bars, period, ind, market>>
batchVars == <<NUM_PROCESSES, tasks, results, output_files, reads>>
retryVars == <<retry_count, attempts>>
backfillVars == <<daily_bars, date_to_process, records_for_today, runs>>
otherVars == <<batchVars, retryVars, snapshot, first_run, backfillVars>>
vars == <<files, runVars, rangeVars, mergeVars, orderVars, engineVars, otherVars, added, step>>

\* ---- bounds of the model ----
MaxDate == 3        \* dates of the merge inputs are the days 1..MaxDate
MaxTotalRows == 3   \* rows of the inputs of one merge scenario, taken together
TicksPerDay == 2    \* clock ticks per calendar day
FirstRunDay == 15   \* a run starts on one of the seven days from this one on
HistoryDays == 8    \* the upstream history begins this many days earlier
MaxGap == 5         \* a stored file ends at most this many days before the run
MaxUpserts == 2     \* calls of update_or_append in one behaviour
MaxBars == 5        \* bars of the series handed to the indicator code
MaxSymbols == 3     \* indicator files the ranker reads
MaxProcesses == 2   \* mp.cpu_count() is between 1 and this
MaxBackfill == 3    \* the table ends at most this many days before today
MaxHistory == 2     \* bars of the input of an indicator file the snapshot reads

\* ---- program constants ----
DEFAULT_START_DATE == 0   \* "1990-01-01", day 0 of the calendar, a Monday
lookback_days == 10
MAX_RETRIES == 3
min_gap_days == 1

NaN == <<>>
Dates == 1..MaxDate
\* two price levels, enough to tell a stored value from a corrected one
Closes == {1, 2}
\* what the upstream puts in preclose: nothing, or a price
Precloses == {NaN, <<1>>}

\* ---- frames ----
None == [kind |-> "None", dtype |-> "na", rows |-> <<>>]
EmptyDataFrame == [kind |-> "empty", dtype |-> "na", rows |-> <<>>]
Raised == [kind |-> "raise", dtype |-> "na", rows |-> <<>>]
DataFrame(dtype, rows) == [kind |-> "df", dtype |-> dtype, rows |-> rows]

\* df.empty
IsEmpty(df) == df.kind = "empty" \/ (df.kind = "df" /\ df.rows = <<>>)

\* pd.to_datetime(df['日期']): a string is parsed to midnight of its day
to_datetime(df) ==
    IF df.dtype = "dt" THEN df
    ELSE DataFrame("dt", [i \in 1..Len(df.rows) |->
                          [df.rows[i] EXCEPT !.date = @ * TicksPerDay]])

\* df['日期'].dt.strftime('%Y-%m-%d'): the time of day is dropped
strftime(df) ==
    DataFrame("str", [i \in 1..Len(df.rows) |->
                      [df.rows[i] EXCEPT !.date = @ \div TicksPerDay]])

\* pd.concat([a, b], ignore_index=True)
concat(a, b) == DataFrame(a.dtype, a.rows \o b.rows)

\* df.drop_duplicates(subset=['日期'], keep='first')
drop_duplicates_first(df) ==
    LET keep == {i \in 1..Len(df.rows) :
                   \A j \in 1..(i - 1) : df.rows[j].date # df.rows[i].date}
        F[i \in 0..Len(df.rows)] ==
            IF i = 0 THEN <<>>
            ELSE IF i \in keep THEN Append(F[i - 1], df.rows[i]) ELSE F[i - 1]
    IN DataFrame(df.dtype, F[Len(df.rows)])

\* df.drop_duplicates(subset=['日期'], keep='last')
drop_duplicates(df) ==
    LET keep == {i \in 1..Len(df.rows) :
                   \A j \in (i + 1)..Len(df.rows) : df.rows[j].date # df.rows[i].date}
        F[i \in 0..Len(df.rows)] ==
            IF i = 0 THEN <<>>
            ELSE IF i \in keep THEN Append(F[i - 1], df.rows[i]) ELSE F[i - 1]
    IN DataFrame(df.dtype, F[Len(df.rows)])

\* df.sort_values('日期').reset_index(drop=True): ascending; rows with equal
\* dates keep their relative order (the order pandas gives short frames)
RECURSIVE InsertSorted(_, _)
InsertSorted(s, r) ==
    IF s = <<>> THEN <<r>>
    ELSE IF s[Len(s)].date <= r.date THEN Append(s, r)
    ELSE Append(InsertSorted(SubSeq(s, 1, Len(s) - 1), r), s[Len(s)])

RECURSIVE SortRows(_)
SortRows(s) ==
    IF s = <<>> THEN <<>>
    ELSE InsertSorted(SortRows(SubSeq(s, 1, Len(s) - 1)), s[Len(s)])

sort_values(df) == DataFrame(df.dtype, SortRows(df.rows))

\* '昨收' not in df.columns or df['昨收'].isna().all()
NoPreclose(rows) == \A i \in 1..Len(rows) : rows[i].pc = NaN

\* df['收盘'] - df['昨收']
Minus(close, pc) == IF pc = NaN THEN NaN ELSE <<close - pc[1]>>

calculate_derived_fields(df) ==
    IF IsEmpty(df) THEN df
    ELSE LET s == SortRows(df.rows)
             shifted == [i \in 1..Len(s) |->
                         [s[i] EXCEPT !.pc = IF i = 1 THEN NaN ELSE <<s[i - 1].close>>]]
             p == IF NoPreclose(s) THEN shifted ELSE s
         IN DataFrame(df.dtype,
                [i \in 1..Len(p) |-> [p[i] EXCEPT !.chg = Minus(p[i].close, p[i].pc)]])

\* a merge that replaces the stored series from the first new date on,
\* instead of keeping every stored date the new series lacks
merge_data_replace_tail(existing, new) ==
    IF existing.kind = "None" \/ IsEmpty(existing)
    THEN IF new.kind # "df"
         THEN Raised
         ELSE calculate_derived_fields(strftime(to_datetime(new)))
    ELSE IF new.kind = "None" \/ IsEmpty(new)
    THEN existing
    ELSE LET e == to_datetime(existing)
             n == to_datetime(new)
             Before(r) == \A i \in 1..Len(n.rows) : r.date < n.rows[i].date
         IN calculate_derived_fields(strftime(
                sort_values(drop_duplicates(
                    concat(DataFrame("dt", SelectSeq(e.rows, Before)), n)))))

\* a merge that appends the new rows without removing duplicate dates
merge_data_append(existing, new) ==
    IF existing.kind = "None" \/ IsEmpty(existing)
    THEN IF new.kind # "df"
         THEN Raised
         ELSE calculate_derived_fields(strftime(to_datetime(new)))
    ELSE IF new.kind = "None" \/ IsEmpty(new)
    THEN existing
    ELSE calculate_derived_fields(strftime(
            sort_values(concat(to_datetime(existing), to_datetime(new)))))

\* ---- merge_data of the raw K-line updater ----
merge_data(existing, new) ==
    IF existing.kind = "None" \/ IsEmpty(existing)
    THEN IF new.kind # "df"
         THEN Raised  \* None.copy(), or no '日期' column in pd.DataFrame()
         ELSE calculate_derived_fields(strftime(to_datetime(new)))
    ELSE IF new.kind = "None" \/ IsEmpty(new)
    THEN existing
    ELSE calculate_derived_fields(strftime(
            sort_values(drop_duplicates(
                concat(to_datetime(existing), to_datetime(new))))))

\* ---- inputs of merge_data ----
SeqsUpTo(S, n) == UNION {[1..k -> S] : k \in 0..n}

IsAscending(rows) == \A i \in 1..(Len(rows) - 1) : rows[i].date <= rows[i + 1].date

\* rows as download_kline_data builds them from the upstream answer
RawRows == [date : Dates, close : Closes, pc : Precloses, chg : {NaN}]

\* what download_kline_data returns: None after the retries, pd.DataFrame()
\* for no data, else the rows with string dates and the derived fields
NewFrames(n) ==
    {None, EmptyDataFrame} \cup
    {calculate_derived_fields(DataFrame("str", raw)) : raw \in SeqsUpTo(RawRows, n) \ {<<>>}}

\* rows of a stored file as get_existing_data returns them (dates parsed)
StoredRows ==
    {[date |-> d * TicksPerDay, close |-> c, pc |-> p, chg |-> Minus(c, p)] :
        d \in Dates, c \in Closes, p \in Precloses}

\* what get_existing_data returns (None for no file or an empty one), and
\* an empty frame; a stored file is in date order
ExistingFrames(n) ==
    {None, EmptyDataFrame} \cup
    {DataFrame("dt", rows) : rows \in {s \in SeqsUpTo(StoredRows, n) \ {<<>>} : IsAscending(s)}}

\* ---- merge scenarios: one merge, then the same window merged again ----
\* no run of a script is in progress
\* the indicator code is not part of the scenario
\* no full-recompute batch is part of the scenario
NoBatch ==
    /\ NUM_PROCESSES = 0
    /\ tasks = <<>>
    /\ results = 0
    /\ output_files = <<>>
    /\ reads = {}

\* no download is being retried
NoRetry ==
    /\ retry_count = 0
    /\ attempts = 0

\* the row-store backfill is not part of the scenario
NoBackfill ==
    /\ daily_bars = {}
    /\ date_to_process = 0
    /\ records_for_today = <<>>
    /\ runs = 0

NoOther == NoBatch /\ NoRetry /\ snapshot = <<>> /\ first_run = <<>> /\ NoBackfill

NoEngine ==
    /\ NoOther
    /\ bars = <<>>
    /\ period = 0
    /\ ind = <<>>
    /\ market = <<>>

NoRun ==
    /\ NoEngine
    /\ files = <<>>
    /\ now = 0
    /\ END_DATE = 0
    /\ force_full_download = FALSE
    /\ stock_codes = <<>>
    /\ idx = 0
    /\ stats = <<>>
    /\ latest_date = NaN
    /\ today = 0
    /\ start_date = NaN
    /\ end_date = NaN
    /\ need_download = FALSE
    /\ added = 0

InitMerge ==
    /\ df_existing \in ExistingFrames(MaxTotalRows)
    /\ df_new \in NewFrames(MaxTotalRows - Len(df_existing.rows))
    /\ df_other = None
    /\ df_final = None
    /\ remerged = None
    /\ swapped = None
    /\ step = "start"
    /\ NoRun

MergeOnce ==
    /\ step = "start"
    /\ df_final' = merge_data(df_existing, df_new)
    /\ step' = "merged"
    /\ UNCHANGED <<otherVars, engineVars, df_existing, df_new, orderVars, files, runVars, rangeVars, added>>

MergeAgain ==
    /\ step = "merged"
    /\ remerged' = IF df_final.kind = "raise" THEN Raised ELSE merge_data(df_final, df_new)
    /\ step' = "again"
    /\ UNCHANGED <<otherVars, engineVars, mergeVars, df_other, swapped, files, runVars, rangeVars, added>>

NextMerge == MergeOnce \/ MergeAgain

SpecMerge == InitMerge /\ [][NextMerge]_vars

\* ---- merge scenarios: two windows merged in either order ----
\* the calendar day of a row of df
DayOf(df, r) == IF df.dtype = "dt" THEN r.date \div TicksPerDay ELSE r.date
Days(df) == {DayOf(df, df.rows[i]) : i \in 1..Len(df.rows)}

\* merge_data applied to the result of an earlier call (an exception
\* of the earlier call propagates)
MergeInto(result, new) == IF result.kind = "raise" THEN Raised ELSE merge_data(result, new)

InitWindows ==
    /\ df_existing \in ExistingFrames(MaxTotalRows)
    /\ df_new \in NewFrames(MaxTotalRows - Len(df_existing.rows)) \ {None}
    /\ df_other \in {f \in NewFrames(MaxTotalRows - Len(df_existing.rows) - Len(df_new.rows)) \ {None} :
                        Days(f) \cap Days(df_new) = {}}
    /\ df_final = None
    /\ remerged = None
    /\ swapped = None
    /\ step = "start"
    /\ NoRun

ApplyNew ==
    /\ step = "start"
    /\ df_final' = merge_data(df_existing, df_new)
    /\ step' = "new"
    /\ UNCHANGED <<otherVars, engineVars, df_existing, df_new, orderVars, files, runVars, rangeVars, added>>

ApplyOtherAfterNew ==
    /\ step = "new"
    /\ remerged' = MergeInto(df_final, df_other)
    /\ step' = "new_other"
    /\ UNCHANGED <<otherVars, engineVars, mergeVars, df_other, swapped, files, runVars, rangeVars, added>>

ApplyOther ==
    /\ step = "new_other"
    /\ swapped' = merge_data(df_existing, df_other)
    /\ step' = "other"
    /\ UNCHANGED <<otherVars, engineVars, mergeVars, df_other, remerged, files, runVars, rangeVars, added>>

ApplyNewAfterOther ==
    /\ step = "other"
    /\ swapped' = MergeInto(swapped, df_new)
    /\ step' = "other_new"
    /\ UNCHANGED <<otherVars, engineVars, mergeVars, df_other, remerged, files, runVars, rangeVars, added>>

NextWindows == ApplyNew \/ ApplyOtherAfterNew \/ ApplyOther \/ ApplyNewAfterOther

SpecWindows == InitWindows /\ [][NextWindows]_vars

\* ---- the calendar and the upstream (Baostock) ----
\* datetime -> 'YYYY-MM-DD'
DateOf(t) == t \div TicksPerDay

\* the day's bar is published in the last tick of a trading day
AfterClose(t) == t % TicksPerDay = TicksPerDay - 1

Weekday(d) == d % 7
Holidays == {FirstRunDay + 6}
IsTradingDay(d) == Weekday(d) < 5 /\ d \notin Holidays

HistoryStart == FirstRunDay - HistoryDays
RunDays == FirstRunDay..(FirstRunDay + 6)

Price(d) == 1 + (d % 2)
TradingDaysBefore(d) == {e \in HistoryStart..(d - 1) : IsTradingDay(e)}
LastTradingDayBefore(d) == CHOOSE e \in TradingDaysBefore(d) : \A f \in TradingDaysBefore(d) : f <= e
Preclose(d) == IF TradingDaysBefore(d) = {} THEN NaN ELSE <<Price(LastTradingDayBefore(d))>>

\* the upstream has the bar of day d at time t
Available(d, t) ==
    /\ IsTradingDay(d)
    /\ d >= HistoryStart
    /\ d < DateOf(t) \/ (d = DateOf(t) /\ AfterClose(t))

UpstreamBar(d) == [date |-> d, close |-> Price(d), pc |-> Preclose(d), chg |-> NaN]

\* bs.query_history_k_data_plus(start_date, end_date) asked at time t
RECURSIVE query_history_k_data_plus(_, _, _)
query_history_k_data_plus(start, end, t) ==
    IF start > end THEN <<>>
    ELSE (IF Available(start, t) THEN <<UpstreamBar(start)>> ELSE <<>>)
         \o query_history_k_data_plus(start + 1, end, t)

\* ---- the raw K-line updater ----
\* the possible results of download_kline_data: None when every attempt
\* failed, pd.DataFrame() when the upstream has no rows for the code,
\* else the rows with their derived fields
download_kline_data(start, end, t) ==
    LET data_list == query_history_k_data_plus(start, end, t)
    IN {None, EmptyDataFrame} \cup
       (IF data_list = <<>> THEN {}
        ELSE {calculate_derived_fields(DataFrame("str", data_list))})

\* df['日期'].max()
MaxOf(S) == CHOOSE x \in S : \A y \in S : y <= x

get_existing_data(file) ==
    IF file.kind = "None" \/ IsEmpty(file)
    THEN [df |-> None, latest |-> NaN]
    ELSE LET df == to_datetime(file)
         IN [df |-> df,
             latest |-> <<DateOf(MaxOf({df.rows[k].date : k \in 1..Len(df.rows)}))>>]

\* a resolver that compares the gap with < instead of <=
calculate_download_range_strict(latest, t) ==
    IF force_full_download \/ latest = NaN
    THEN [start |-> <<DEFAULT_START_DATE>>, end |-> <<END_DATE>>, need |-> TRUE]
    ELSE LET latest_dt == latest[1] * TicksPerDay
             days_gap == (t - latest_dt) \div TicksPerDay
         IN IF days_gap < min_gap_days
            THEN [start |-> NaN, end |-> NaN, need |-> FALSE]
            ELSE [start |-> <<DateOf(latest_dt - lookback_days * TicksPerDay)>>,
                  end |-> <<END_DATE>>, need |-> TRUE]

\* a resolver that looks back from today instead of from the latest date
calculate_download_range_from_today(latest, t) ==
    IF force_full_download \/ latest = NaN
    THEN [start |-> <<DEFAULT_START_DATE>>, end |-> <<END_DATE>>, need |-> TRUE]
    ELSE LET latest_dt == latest[1] * TicksPerDay
             days_gap == (t - latest_dt) \div TicksPerDay
         IN IF days_gap <= min_gap_days
            THEN [start |-> NaN, end |-> NaN, need |-> FALSE]
            ELSE [start |-> <<DateOf(t - lookback_days * TicksPerDay)>>,
                  end |-> <<END_DATE>>, need |-> TRUE]

\* a resolver that also skips a gap of min_gap_days + 1 days
calculate_download_range_late(latest, t) ==
    IF force_full_download \/ latest = NaN
    THEN [start |-> <<DEFAULT_START_DATE>>, end |-> <<END_DATE>>, need |-> TRUE]
    ELSE LET latest_dt == latest[1] * TicksPerDay
             days_gap == (t - latest_dt) \div TicksPerDay
         IN IF days_gap <= min_gap_days + 1
            THEN [start |-> NaN, end |-> NaN, need |-> FALSE]
            ELSE [start |-> <<DateOf(latest_dt - lookback_days * TicksPerDay)>>,
                  end |-> <<END_DATE>>, need |-> TRUE]

\* latest is the latest stored date (NaN for None), t is datetime.now()
calculate_download_range(latest, t) ==
    IF force_full_download \/ latest = NaN
    THEN [start |-> <<DEFAULT_START_DATE>>, end |-> <<END_DATE>>, need |-> TRUE]
    ELSE LET latest_dt == latest[1] * TicksPerDay
             days_gap == (t - latest_dt) \div TicksPerDay
         IN IF days_gap <= min_gap_days
            THEN [start |-> NaN, end |-> NaN, need |-> FALSE]
            ELSE [start |-> <<DateOf(latest_dt - lookback_days * TicksPerDay)>>,
                  end |-> <<END_DATE>>, need |-> TRUE]

\* every code the stock information file lists
AllCodes == <<"000001", "600000">>
Codes == {AllCodes[k] : k \in 1..Len(AllCodes)}

\* get_stock_list: the codes that have a file, or else every listed code
get_stock_list(fs) ==
    LET HasFile(c) == fs[c].kind # "None"
    IN IF \E c \in Codes : HasFile(c) THEN SelectSeq(AllCodes, HasFile) ELSE AllCodes

\* the file an earlier run stored, when the upstream ended on day latest
StoredFile(latest) ==
    calculate_derived_fields(DataFrame("str",
        query_history_k_data_plus(HistoryStart, latest, (latest + 1) * TicksPerDay)))

\* the files a run can find: none, one without rows, or a stored history
InitialFiles(t) ==
    {None, DataFrame("str", <<>>)} \cup
    {StoredFile(latest) : latest \in {d \in (DateOf(t) - MaxGap)..DateOf(t) : Available(d, t)}}

NoMerge ==
    /\ NoEngine
    /\ df_other = None
    /\ remerged = None
    /\ swapped = None
    /\ added = 0

Init ==
    /\ now \in {d * TicksPerDay + tod : d \in RunDays, tod \in 0..(TicksPerDay - 1)}
    /\ END_DATE = DateOf(now)
    /\ force_full_download \in BOOLEAN
    /\ files \in [Codes -> InitialFiles(now)]
    /\ stock_codes = get_stock_list(files)
    /\ idx = 1
    /\ stats = [total |-> Len(stock_codes), updated |-> 0, skipped |-> 0,
                 failed |-> 0, new_records |-> 0]
    /\ latest_date = NaN
    /\ today = 0
    /\ start_date = NaN
    /\ end_date = NaN
    /\ need_download = FALSE
    /\ df_existing = None
    /\ df_new = None
    /\ df_final = None
    /\ step = "loop"
    /\ NoMerge

\* one pass of the loop of main over stock_codes[idx]
ProcessStock ==
    /\ step = "loop"
    /\ idx <= Len(stock_codes)
    /\ LET stock_code == stock_codes[idx]
           got == get_existing_data(files[stock_code])
           r == calculate_download_range(got.latest, now)
       IN /\ df_existing' = got.df
          /\ latest_date' = got.latest
          /\ today' = now
          /\ start_date' = r.start
          /\ end_date' = r.end
          /\ need_download' = r.need
          /\ IF ~r.need
             THEN /\ stats' = [stats EXCEPT !.skipped = @ + 1]
                  /\ idx' = idx + 1
                  /\ UNCHANGED <<files, df_new, df_final, step>>
             ELSE \E dl \in download_kline_data(r.start[1], r.end[1], now) :
                  /\ df_new' = dl
                  /\ IF dl.kind = "None"
                     THEN /\ stats' = [stats EXCEPT !.failed = @ + 1]
                          /\ idx' = idx + 1
                          /\ UNCHANGED <<files, df_final, step>>
                     ELSE LET m == merge_data(got.df, dl)
                          IN /\ df_final' = m
                             /\ IF m.kind = "raise"
                                THEN /\ step' = "crashed"
                                     /\ UNCHANGED <<files, stats, idx>>
                                ELSE IF IsEmpty(m)
                                THEN /\ stats' = [stats EXCEPT !.failed = @ + 1]
                                     /\ idx' = idx + 1
                                     /\ UNCHANGED <<files, step>>
                                ELSE /\ files' = [files EXCEPT ![stock_code] = m]
                                     /\ stats' = [stats EXCEPT
                                                     !.new_records = @ + Len(dl.rows),
                                                     !.updated = @ + 1]
                                     /\ idx' = idx + 1
                                     /\ UNCHANGED step
    /\ UNCHANGED <<otherVars, engineVars, now, END_DATE, force_full_download, stock_codes, orderVars, added>>

\* the clock advances while the run is under way
Tick ==
    /\ step \in {"loop", "qfq", "hfq"}
    /\ now + 1 < (END_DATE + 2) * TicksPerDay
    /\ now' = now + 1
    /\ UNCHANGED <<otherVars, engineVars, files, END_DATE, force_full_download, stock_codes, idx, stats,
                   rangeVars, mergeVars, orderVars, added, step>>

\* a loop that stops at the first failed symbol
FinishAtFailure ==
    /\ step = "loop"
    /\ idx > Len(stock_codes) \/ stats.failed > 0
    /\ step' = "done"
    /\ UNCHANGED <<otherVars, engineVars, files, runVars, rangeVars, mergeVars, orderVars, added>>

\* the loop is over: logout and the summary
Finish ==
    /\ step = "loop"
    /\ idx > Len(stock_codes)
    /\ step' = "done"
    /\ UNCHANGED <<otherVars, engineVars, files, runVars, rangeVars, mergeVars, orderVars, added>>

Next == ProcessStock \/ Tick \/ Finish

Spec == Init /\ [][Next]_vars

\* ---- the adjusted-price updater ----
\* calculate_derived_fields of the adjusted-price updater: 昨收 is always
\* the previous row's close
calculate_derived_fields_adjusted(df) ==
    IF IsEmpty(df) THEN df
    ELSE LET sorted == SortRows(df.rows)
             prev(k) == IF k = 1 THEN NaN ELSE <<sorted[k - 1].close>>
         IN DataFrame(df.dtype,
                [k \in 1..Len(sorted) |->
                    [sorted[k] EXCEPT !.pc = prev(k),
                                      !.chg = Minus(sorted[k].close, prev(k))]])

\* .dt.strftime of the date column: only a datetime column has .dt
dt_strftime(df) == IF df.dtype = "dt" THEN strftime(df) ELSE Raised

\* merge_data of the adjusted-price updater
merge_data_adjusted(existing, new) ==
    LET df_result ==
            IF existing.kind = "None" \/ IsEmpty(existing) THEN new
            ELSE sort_values(drop_duplicates(concat(to_datetime(existing), to_datetime(new))))
    IN IF ~(existing.kind = "None" \/ IsEmpty(existing)) /\ (new.kind = "None" \/ IsEmpty(new))
       THEN existing
       ELSE IF df_result.kind # "df" THEN Raised
       ELSE IF dt_strftime(df_result).kind = "raise" THEN Raised
       ELSE calculate_derived_fields_adjusted(dt_strftime(df_result))

download_adjusted_data(start, end, t) ==
    LET data_list == query_history_k_data_plus(start, end, t)
    IN {None, EmptyDataFrame} \cup
       (IF data_list = <<>> THEN {}
        ELSE {calculate_derived_fields_adjusted(DataFrame("str", data_list))})

AdjustTypes == {"qfq", "hfq"}

\* get_stock_list: the codes with a file in either directory, or else every
\* listed code
get_stock_list_adjusted(fs) ==
    LET HasFile(c) == \E a \in AdjustTypes : fs[<<a, c>>].kind # "None"
    IN IF \E c \in Codes : HasFile(c) THEN SelectSeq(AllCodes, HasFile) ELSE AllCodes

\* the latest day whose bar the upstream has at time t
LastAvailable(t) == MaxOf({d \in HistoryStart..DateOf(t) : Available(d, t)})

\* the file an earlier run of the adjusted-price updater stored
StoredFileAdjusted(latest) ==
    calculate_derived_fields_adjusted(DataFrame("str",
        query_history_k_data_plus(HistoryStart, latest, (latest + 1) * TicksPerDay)))

InitialFilesAdjusted(t) ==
    {None, StoredFileAdjusted(LastAvailable(t))}

InitAdjusted ==
    /\ now \in {d * TicksPerDay + tod : d \in RunDays, tod \in 0..(TicksPerDay - 1)}
    /\ END_DATE = DateOf(now)
    /\ force_full_download = FALSE
    /\ files \in [AdjustTypes \X Codes -> InitialFilesAdjusted(now)]
    /\ stock_codes = get_stock_list_adjusted(files)
    /\ idx = 1
    /\ stats = [total |-> Len(stock_codes), new_records |-> 0,
                 qfq_updated |-> 0, qfq_skipped |-> 0, qfq_failed |-> 0,
                 hfq_updated |-> 0, hfq_skipped |-> 0, hfq_failed |-> 0]
    /\ latest_date = NaN
    /\ today = 0
    /\ start_date = NaN
    /\ end_date = NaN
    /\ need_download = FALSE
    /\ df_existing = None
    /\ df_new = None
    /\ df_final = None
    /\ step = "qfq"
    /\ NoMerge

\* the half of a pass of the loop of main that handles one adjust type of
\* stock_codes[idx]; new_records is only counted for qfq
ProcessAdjusted(adjust_type, next_step, next_idx) ==
    /\ step = adjust_type
    /\ idx <= Len(stock_codes)
    /\ LET file == <<adjust_type, stock_codes[idx]>>
           got == get_existing_data(files[file])
           r == calculate_download_range(got.latest, now)
           updated == adjust_type \o "_updated"
           skipped == adjust_type \o "_skipped"
           failed == adjust_type \o "_failed"
       IN /\ df_existing' = got.df
          /\ latest_date' = got.latest
          /\ today' = now
          /\ start_date' = r.start
          /\ end_date' = r.end
          /\ need_download' = r.need
          /\ IF ~r.need
             THEN /\ stats' = [stats EXCEPT ![skipped] = @ + 1]
                  /\ step' = next_step
                  /\ idx' = next_idx
                  /\ UNCHANGED <<files, df_new, df_final>>
             ELSE \E dl \in download_adjusted_data(r.start[1], r.end[1], now) :
                  /\ df_new' = dl
                  /\ IF dl.kind = "None"
                     THEN /\ stats' = [stats EXCEPT ![failed] = @ + 1]
                          /\ step' = next_step
                          /\ idx' = next_idx
                          /\ UNCHANGED <<files, df_final>>
                     ELSE LET m == merge_data_adjusted(got.df, dl)
                          IN /\ df_final' = m
                             /\ IF m.kind = "raise"
                                THEN /\ step' = "crashed"
                                     /\ UNCHANGED <<files, stats, idx>>
                                ELSE /\ files' = [files EXCEPT ![file] = m]
                                     /\ stats' = [stats EXCEPT
                                          ![updated] = @ + 1,
                                          !.new_records = IF adjust_type = "qfq"
                                                          THEN @ + Len(dl.rows) ELSE @]
                                     /\ step' = next_step
                                     /\ idx' = next_idx
    /\ UNCHANGED <<otherVars, engineVars, now, END_DATE, force_full_download, stock_codes, orderVars, added>>

ProcessQfq == ProcessAdjusted("qfq", "hfq", idx)

ProcessHfq == ProcessAdjusted("hfq", "qfq", idx + 1)

FinishAdjusted ==
    /\ step = "qfq"
    /\ idx > Len(stock_codes)
    /\ step' = "done"
    /\ UNCHANGED <<otherVars, engineVars, files, runVars, rangeVars, mergeVars, orderVars, added>>

NextAdjusted == ProcessQfq \/ ProcessHfq \/ Tick \/ FinishAdjusted

SpecAdjusted == InitAdjusted /\ [][NextAdjusted]_vars

\* ---- the smart and the daily updater: update_or_append ----
\* the file after update_or_append and the number it returns
update_or_append(existing, new_data) ==
    IF existing.kind # "None"
    THEN LET combined == sort_values(drop_duplicates(concat(existing, new_data)))
         IN IF Len(combined.rows) > Len(existing.rows)
            THEN [file |-> combined, ret |-> Len(combined.rows) - Len(existing.rows)]
            ELSE [file |-> existing, ret |-> 0]
    ELSE [file |-> new_data, ret |-> Len(new_data.rows)]

\* the rows download_data returns: dates are datetimes, no derived fields
DownloadedRows ==
    {[date |-> d * TicksPerDay, close |-> c, pc |-> NaN, chg |-> NaN] :
        d \in Dates, c \in Closes}

\* a non-empty download, ascending and one row per date as the upstream
\* delivers it
Downloads ==
    {DataFrame("dt", rows) :
        rows \in {r \in SeqsUpTo(DownloadedRows, 2) \ {<<>>} :
                    \A k \in 1..(Len(r) - 1) : r[k].date < r[k + 1].date}}

InitUpsert ==
    /\ files \in [Codes -> {None} \cup Downloads]
    /\ idx = 0
    /\ stock_codes = <<>>
    /\ stats = <<>>
    /\ now = 0
    /\ END_DATE = 0
    /\ force_full_download = FALSE
    /\ latest_date = NaN
    /\ today = 0
    /\ start_date = NaN
    /\ end_date = NaN
    /\ need_download = FALSE
    /\ df_existing = None
    /\ df_new = None
    /\ df_final = None
    /\ step = "start"
    /\ NoMerge

\* run calls update_or_append(code, df) with a non-empty download; idx
\* counts the calls and stock_codes holds the code of the last one
UpdateOrAppend ==
    /\ step \in {"start", "upserted"}
    /\ idx < MaxUpserts
    /\ \E code \in Codes, new_data \in Downloads :
          LET u == update_or_append(files[code], new_data)
          IN /\ df_existing' = files[code]
             /\ df_new' = new_data
             /\ df_final' = u.file
             /\ files' = [files EXCEPT ![code] = u.file]
             /\ added' = u.ret
             /\ stock_codes' = <<code>>
    /\ idx' = idx + 1
    /\ step' = "upserted"
    /\ UNCHANGED <<otherVars, engineVars, now, END_DATE, force_full_download, stats, rangeVars, orderVars>>

NextUpsert == UpdateOrAppend

SpecUpsert == InitUpsert /\ [][NextUpsert]_vars

\* ---- numbers of the indicator code ----
\* a float is an exact fraction <<numerator, denominator>> in lowest terms
\* with a positive denominator; NaN is <<>>
Abs(x) == IF x < 0 THEN -x ELSE x

RECURSIVE GCD(_, _)
GCD(a, b) == IF b = 0 THEN a ELSE GCD(b, a % b)

Frac(n, d) ==
    LET g == GCD(Abs(n), Abs(d))
        sgn == IF d < 0 THEN -1 ELSE 1
    IN <<(sgn * n) \div g, (sgn * d) \div g>>

Num(x) == <<x, 1>>
RAdd(x, y) == Frac(x[1] * y[2] + y[1] * x[2], x[2] * y[2])
RSub(x, y) == Frac(x[1] * y[2] - y[1] * x[2], x[2] * y[2])
RMul(x, y) == Frac(x[1] * y[1], x[2] * y[2])
RDiv(x, y) == Frac(x[1] * y[2], x[2] * y[1])
RLess(x, y) == x[1] * y[2] < y[1] * x[2]
IsZero(x) == x[1] = 0

\* ---- pandas Series operations ----
\* the column of one field of the rows
Column(rows, field) == [k \in 1..Len(rows) |-> Num(rows[k][field])]

\* positions of the window of length window that ends at k
Window(k, window) == (k - window + 1)..k

\* the window ending at k is complete and holds no NaN
FullWindow(S, k, window) == k >= window /\ \A j \in Window(k, window) : S[j] # NaN

RECURSIVE SumOver(_, _, _)
SumOver(S, lo, hi) == IF lo > hi THEN Num(0) ELSE RAdd(S[lo], SumOver(S, lo + 1, hi))

\* Series.rolling(window).mean() with min_periods=1
rolling_mean_min_periods_1(S, window) ==
    [k \in 1..Len(S) |->
        LET lo == IF k >= window THEN k - window + 1 ELSE 1
        IN RDiv(SumOver(S, lo, k), Num(k - lo + 1))]

\* Series.rolling(window).mean(): min_periods defaults to window
rolling_mean(S, window) ==
    [k \in 1..Len(S) |->
        IF FullWindow(S, k, window)
        THEN RDiv(SumOver(S, k - window + 1, k), Num(window))
        ELSE NaN]

\* Series.diff()
diff(S) == [k \in 1..Len(S) |-> IF k = 1 THEN NaN ELSE RSub(S[k], S[k - 1])]

\* delta.where(delta > 0, 0): NaN > 0 is False, so NaN becomes 0
where_positive(S) ==
    [k \in 1..Len(S) |-> IF S[k] # NaN /\ RLess(Num(0), S[k]) THEN S[k] ELSE Num(0)]

\* -delta.where(delta < 0, 0)
minus_where_negative(S) ==
    [k \in 1..Len(S) |->
        IF S[k] # NaN /\ RLess(S[k], Num(0)) THEN RSub(Num(0), S[k]) ELSE Num(0)]

\* float infinity
Inf == <<1, 0>>

\* x / y on floats that are not negative: a zero divisor gives inf, or NaN
\* for 0 / 0, and never raises
divide(x, y) ==
    IF x = NaN \/ y = NaN THEN NaN
    ELSE IF IsZero(y) THEN (IF IsZero(x) THEN NaN ELSE Inf)
    ELSE RDiv(x, y)

\* the largest and the smallest of a set of floats
Largest(V) == CHOOSE x \in V : \A y \in V : ~RLess(x, y)
Smallest(V) == CHOOSE x \in V : \A y \in V : ~RLess(y, x)

\* Series.rolling(window).max() with min_periods=1
rolling_max_min_periods_1(S, window) ==
    [k \in 1..Len(S) |->
        Largest({S[j] : j \in (IF k >= window THEN k - window + 1 ELSE 1)..k})]

\* Series.rolling(window).max() and .min(): min_periods defaults to window
rolling_max(S, window) ==
    [k \in 1..Len(S) |->
        IF FullWindow(S, k, window) THEN Largest({S[j] : j \in Window(k, window)})
        ELSE NaN]

rolling_min(S, window) ==
    [k \in 1..Len(S) |->
        IF FullWindow(S, k, window) THEN Smallest({S[j] : j \in Window(k, window)})
        ELSE NaN]

\* Series.ewm(alpha=alpha, adjust=False).mean() from position i on, where
\* weighted is the average so far and old_wt the weight it has decayed to:
\* a NaN input repeats the average so far and only decays its weight
RECURSIVE ewm_from(_, _, _, _, _)
ewm_from(S, i, weighted, old_wt, alpha) ==
    IF i > Len(S) THEN <<>>
    ELSE LET cur == S[i]
             decayed == RMul(old_wt, RSub(Num(1), alpha))
             average ==
                 IF weighted = NaN THEN cur
                 ELSE IF cur = NaN \/ cur = weighted THEN weighted
                 ELSE RDiv(RAdd(RMul(decayed, weighted), RMul(alpha, cur)),
                           RAdd(decayed, alpha))
             weight ==
                 IF weighted = NaN THEN old_wt
                 ELSE IF cur = NaN THEN decayed
                 ELSE Num(1)
         IN <<average>> \o ewm_from(S, i + 1, average, weight, alpha)

ewm_mean(S, alpha) == ewm_from(S, 1, NaN, Num(1), alpha)

\* ---- the indicator functions of the full recalculation ----
calculate_ma(df, p) == rolling_mean(Column(df, "close"), p)

calculate_rsi(df, p) ==
    LET delta == diff(Column(df, "close"))
        gain == rolling_mean(where_positive(delta), p)
        loss == rolling_mean(minus_where_negative(delta), p)
    IN [k \in 1..Len(df) |->
          LET rs == divide(gain[k], loss[k])
          IN IF rs = NaN THEN NaN
             ELSE IF rs = Inf THEN Num(100)
             ELSE RSub(Num(100), RDiv(Num(100), RAdd(Num(1), rs)))]

calculate_kdj(df, n, m1, m2) ==
    LET close == Column(df, "close")
        low_min == rolling_min(Column(df, "low"), n)
        high_max == rolling_max(Column(df, "high"), n)
        rsv == [i \in 1..Len(df) |->
                   IF low_min[i] = NaN \/ high_max[i] = NaN THEN NaN
                   ELSE LET q == divide(RSub(close[i], low_min[i]),
                                        RSub(high_max[i], low_min[i]))
                        IN IF q = NaN \/ q = Inf THEN q ELSE RMul(q, Num(100))]
        k == ewm_mean(rsv, Frac(1, m1))
        d == ewm_mean(k, Frac(1, m2))
        j == [i \in 1..Len(df) |->
                 IF k[i] = NaN \/ d[i] = NaN THEN NaN
                 ELSE RSub(RMul(Num(3), k[i]), RMul(Num(2), d[i]))]
    IN [kdj_k |-> k, kdj_d |-> d, kdj_j |-> j]

\* the pair of columns calculate_price_range builds for one period
calculate_price_range(df, p) ==
    [high |-> rolling_max(Column(df, "high"), p),
     low |-> rolling_min(Column(df, "low"), p)]

\* Series.pct_change(p): close / close.shift(p) - 1
pct_change(S, p) ==
    [k \in 1..Len(S) |->
        IF k <= p \/ S[k] = NaN \/ S[k - p] = NaN THEN NaN
        ELSE RSub(RDiv(S[k], S[k - p]), Num(1))]

\* the horizons of calculate_rs_raw, standing for 20, 60, 120 and 250 bars,
\* and their weights 0.4, 0.3, 0.2, 0.1
rs_periods == <<1, 2, 3, 4>>
rs_weights == <<Frac(4, 10), Frac(3, 10), Frac(2, 10), Frac(1, 10)>>

\* a weighted sum in which a missing term contributes nothing
RECURSIVE weighted_sum_fill_zero(_, _)
weighted_sum_fill_zero(terms, i) ==
    IF i = 0 THEN Num(0)
    ELSE LET rest == weighted_sum_fill_zero(terms, i - 1)
         IN IF terms[i] = NaN THEN rest ELSE RAdd(rest, RMul(rs_weights[i], terms[i]))

\* sum(w * rs for w, rs in zip(weights, rs_values)) over the first i terms
\* at one position: a NaN term makes the sum NaN
RECURSIVE weighted_sum(_, _)
weighted_sum(terms, i) ==
    IF i = 0 THEN Num(0)
    ELSE LET rest == weighted_sum(terms, i - 1)
         IN IF rest = NaN \/ terms[i] = NaN THEN NaN
            ELSE RAdd(rest, RMul(rs_weights[i], terms[i]))

calculate_rs_raw(df) ==
    LET rs_values == [i \in 1..Len(rs_periods) |->
                         pct_change(Column(df, "close"), rs_periods[i])]
    IN [k \in 1..Len(df) |->
          weighted_sum([i \in 1..Len(rs_periods) |-> rs_values[i][k]], Len(rs_periods))]

\* the decimals kept of each family of columns
DECIMAL_CONFIG == [ma |-> 2, rsi |-> 2, macd |-> 4, kdj |-> 4, change |-> 2,
                   volume |-> 2, price |-> 2, rs_rating |-> 1, rs_raw |-> 4]

RECURSIVE Pow10(_)
Pow10(d) == IF d = 0 THEN 1 ELSE 10 * Pow10(d - 1)

\* the integer nearest to n / d for d > 0, a tie going to the even one
RoundHalfEven(n, d) ==
    LET q == n \div d
        r == n % d
    IN IF 2 * r < d THEN q
       ELSE IF 2 * r > d THEN q + 1
       ELSE IF q % 2 = 0 THEN q ELSE q + 1

\* float.round(decimals)
round(x, decimals) ==
    IF x = NaN THEN NaN
    ELSE Frac(RoundHalfEven(x[1] * Pow10(decimals), x[2]), Pow10(decimals))

round_column(S, decimals) == [k \in 1..Len(S) |-> round(S[k], decimals)]

\* the windows the engine computes: ma_periods, rsi_periods, kdj_periods
\* and range_periods below; MACD, the price changes and the volume
\* indicators add columns in the same way and are left out
\* ---- the bar series handed to the indicator code ----
Prices == {1, 2}
BarShapes == {b \in [close : Prices, high : Prices, low : Prices] :
                 b.low <= b.close /\ b.close <= b.high}

\* the k-th bar of a series of n bars, with the dates ascending or descending
Dated(shapes, descending) ==
    [k \in 1..Len(shapes) |->
        [date |-> IF descending THEN Len(shapes) + 1 - k ELSE k,
         close |-> shapes[k].close, high |-> shapes[k].high, low |-> shapes[k].low]]

BarSeries ==
    {Dated(shapes, descending) :
        shapes \in SeqsUpTo(BarShapes, MaxBars) \ {<<>>}, descending \in BOOLEAN}

\* the windows the functions are called with: 5 and 20 are windows of
\* calculate_ma, 2 and 3 stand for the windows shorter than the series
ma_periods == {2, 3, 5, 20}

InitEngine ==
    /\ NoOther
    /\ bars \in BarSeries
    /\ period = 0
    /\ ind = <<>>
    /\ market = <<>>
    /\ step = "bars"
    /\ files = <<>>
    /\ now = 0
    /\ END_DATE = 0
    /\ force_full_download = FALSE
    /\ stock_codes = <<>>
    /\ idx = 0
    /\ stats = <<>>
    /\ latest_date = NaN
    /\ today = 0
    /\ start_date = NaN
    /\ end_date = NaN
    /\ need_download = FALSE
    /\ added = 0
    /\ df_existing = None
    /\ df_new = None
    /\ df_final = None
    /\ df_other = None
    /\ remerged = None
    /\ swapped = None

\* the rest of the state is not touched by the indicator code
EngineFrame ==
    UNCHANGED <<otherVars, bars, market, files, runVars, rangeVars, mergeVars, orderVars, added>>

CalculateMa ==
    /\ step = "bars"
    /\ \E p \in ma_periods :
          /\ period' = p
          /\ ind' = calculate_ma(bars, p)
    /\ step' = "ma"
    /\ EngineFrame

\* ---- the MyTT worker ----
\* MyTT.MA(S, N): the simple moving average of the last N values
MA(S, N) == rolling_mean(S, N)

\* the columns calculate_mytt adds to the group of one symbol
calculate_mytt(group) ==
    LET CLOSE == Column(group, "close")
    IN IF Len(CLOSE) < 60 THEN <<>>
       ELSE [ma5 |-> MA(CLOSE, 5), ma10 |-> MA(CLOSE, 10),
             ma20 |-> MA(CLOSE, 20), ma60 |-> MA(CLOSE, 60)]

\* the record built for the row of target_date: a column that is missing
\* or NaN in that row is left out, and a record without any indicator is
\* not upserted (<<>>)
record_to_upsert(group, k) ==
    LET columns == calculate_mytt(group)
        present == {col \in DOMAIN columns : columns[col][k] # NaN}
    IN [col \in present |-> columns[col][k]]

\* the worker runs for the date of the latest bar of the symbol
CalculateMytt ==
    /\ step = "bars"
    /\ \E k \in 1..Len(bars) :
          /\ \A j \in 1..Len(bars) : bars[j].date <= bars[k].date
          /\ period' = 0
          /\ ind' = record_to_upsert(bars, k)
    /\ step' = "mytt"
    /\ EngineFrame

\* the windows calculate_rsi is called with; they stand for 6, 12, 14, 24
rsi_periods == {2, 3}

CalculateRsi ==
    /\ step = "bars"
    /\ \E p \in rsi_periods :
          /\ period' = p
          /\ ind' = calculate_rsi(bars, p)
    /\ step' = "rsi"
    /\ EngineFrame

\* the windows calculate_kdj is called with; they stand for n=9
kdj_periods == {2, 3}

CalculateKdj ==
    /\ step = "bars"
    /\ \E n \in kdj_periods :
          /\ period' = n
          /\ ind' = calculate_kdj(bars, n, 3, 3)
    /\ step' = "kdj"
    /\ EngineFrame

\* the periods of calculate_price_range: 20 is one of the code's, 2 and 3
\* stand for the periods shorter than the series
range_periods == {2, 3, 20}

CalculatePriceRange ==
    /\ step = "bars"
    /\ \E p \in range_periods :
          /\ period' = p
          /\ ind' = calculate_price_range(bars, p)
    /\ step' = "range"
    /\ EngineFrame

\* the frame calculate_all_indicators builds from the sorted rows: the
\* columns of every function, rounded by round_indicators
indicator_frame(rows) ==
    [kind |-> "df",
     rows |-> rows,
     ma |-> [p \in ma_periods |-> round_column(calculate_ma(rows, p), DECIMAL_CONFIG.ma)],
     rsi |-> [p \in rsi_periods |-> round_column(calculate_rsi(rows, p), DECIMAL_CONFIG.rsi)],
     kdj_k |-> [n \in kdj_periods |->
                  round_column(calculate_kdj(rows, n, 3, 3).kdj_k, DECIMAL_CONFIG.kdj)],
     high |-> [p \in range_periods |->
                 round_column(calculate_price_range(rows, p).high, DECIMAL_CONFIG.price)],
     low |-> [p \in range_periods |->
                round_column(calculate_price_range(rows, p).low, DECIMAL_CONFIG.price)],
     rs_raw |-> round_column(calculate_rs_raw(rows), DECIMAL_CONFIG.rs_raw)]

\* an engine that drops the first row, whose 1-bar change is NaN
calculate_all_indicators_dropna(df) == indicator_frame(Tail(SortRows(df)))

calculate_all_indicators(df) == indicator_frame(SortRows(df))

CalculateAllIndicators ==
    /\ step = "bars"
    /\ period' = 0
    /\ ind' = calculate_all_indicators(bars)
    /\ step' = "all"
    /\ EngineFrame

CalculateRsRaw ==
    /\ step = "bars"
    /\ period' = rs_periods[Len(rs_periods)]
    /\ ind' = calculate_rs_raw(bars)
    /\ step' = "rs_raw"
    /\ EngineFrame

NextEngine ==
    \/ CalculateMa
    \/ CalculateMytt
    \/ CalculateRsi
    \/ CalculateKdj
    \/ CalculatePriceRange
    \/ CalculateRsRaw
    \/ CalculateAllIndicators

SpecEngine == InitEngine /\ [][NextEngine]_vars

\* ---- the cross-sectional ranker ----
\* the dates of the rows of every indicator file
RankDates == {1, 2}

\* the rs_raw values a row can hold, rounded to 4 decimals as stored
RawValues == {NaN, Frac(5, 100), Frac(10, 100)}

\* rank(method='average') of v among the values: the mean of the ranks of
\* the values equal to v
rank_average(values, v) ==
    LET smaller == Cardinality({i \in DOMAIN values : RLess(values[i], v)})
        equal == Cardinality({i \in DOMAIN values : values[i] = v})
    IN Frac(2 * smaller + equal + 1, 2)

\* rank(method='min') of v among the values: one more than the number of
\* values strictly smaller
rank_min(values, v) ==
    Num(1 + Cardinality({i \in DOMAIN values : RLess(values[i], v)}))

\* combined.groupby('日期')['rs_raw'].rank(pct=True, method='min') * 100,
\* rounded: the rating of symbol s on date d, where raw maps the symbols
\* with a non-null rs_raw on d to that value
rs_rating(raw, s) ==
    round(RMul(RDiv(rank_min(raw, raw[s]), Num(Cardinality(DOMAIN raw))), Num(100)),
          DECIMAL_CONFIG.rs_rating)

\* the rs_raw of the symbols whose row of date d is kept by dropna
valid_on(mkt, d) ==
    LET kept == {s \in DOMAIN mkt : mkt[s].rows[d].rs_raw # NaN}
    IN [s \in kept |-> mkt[s].rows[d].rs_raw]

\* the left merge followed by a fillna(0)
merge_rating_fillna(row, raw, s) ==
    [row EXCEPT !.rs_rating = IF s \in DOMAIN raw THEN rs_rating(raw, s) ELSE Num(0)]

\* df_original.merge(group[['日期', 'rs_rating']], on='日期', how='left')
\* for one row: a date without a rating of the symbol gets NaN
merge_rating(row, raw, s) ==
    [row EXCEPT !.rs_rating = IF s \in DOMAIN raw THEN rs_rating(raw, s) ELSE NaN]

\* an inner merge: a row without a rating is dropped
merge_how_inner(row, raw, s) ==
    IF s \in DOMAIN raw THEN <<merge_rating(row, raw, s)>> ELSE <<>>

\* how='left': what the merge makes of one row of df_original; the symbol
\* has at most one rating per date, so it is one row
merge_how_left(row, raw, s) == <<merge_rating(row, raw, s)>>

\* df_updated: the rows of the first n rows of the file of s, in order
RECURSIVE merge_rows(_, _, _)
merge_rows(mkt, s, n) ==
    IF n = 0 THEN <<>>
    ELSE merge_rows(mkt, s, n - 1) \o
         merge_how_left(mkt[s].rows[n], valid_on(mkt, mkt[s].rows[n].date), s)

\* the files after calculate_rs_rating_for_stocks: only the symbols that
\* have a row with rs_raw are rewritten
calculate_rs_rating_for_stocks(mkt) ==
    [s \in DOMAIN mkt |->
        IF \A d \in RankDates : mkt[s].rows[d].rs_raw = NaN THEN mkt[s]
        ELSE [has_rating |-> TRUE, rows |-> merge_rows(mkt, s, Len(mkt[s].rows))]]

\* the indicator files the engine wrote: no rs_rating column yet
IndicatorFiles(symbols) ==
    {[s \in symbols |->
        [has_rating |-> FALSE,
         rows |-> [d \in RankDates |-> [date |-> d, rs_raw |-> raw[s][d], rs_rating |-> NaN]]]] :
     raw \in [symbols -> [RankDates -> RawValues]]}

InitRating ==
    /\ NoOther
    /\ market \in UNION {IndicatorFiles(1..n) : n \in 1..MaxSymbols}
    /\ bars = <<>>
    /\ period = 0
    /\ ind = <<>>
    /\ step = "files"
    /\ files = <<>>
    /\ now = 0
    /\ END_DATE = 0
    /\ force_full_download = FALSE
    /\ stock_codes = <<>>
    /\ idx = 0
    /\ stats = <<>>
    /\ latest_date = NaN
    /\ today = 0
    /\ start_date = NaN
    /\ end_date = NaN
    /\ need_download = FALSE
    /\ added = 0
    /\ df_existing = None
    /\ df_new = None
    /\ df_final = None
    /\ df_other = None
    /\ remerged = None
    /\ swapped = None

\* ind keeps the files as they were read; a second run reads the files the
\* first one wrote and replaces their rs_rating column
CalculateRsRating ==
    /\ step \in {"files", "rated"}
    /\ ind' = market
    /\ market' = calculate_rs_rating_for_stocks(market)
    /\ step' = "rated"
    /\ UNCHANGED <<otherVars, bars, period, files, runVars, rangeVars, mergeVars, orderVars, added>>

NextRating == CalculateRsRating

SpecRating == InitRating /\ [][NextRating]_vars

\* ---- the full recalculation: process_batch and main ----
\* the download scripts are not part of the scenario
NoDownload ==
    /\ files = <<>>
    /\ now = 0
    /\ END_DATE = 0
    /\ force_full_download = FALSE
    /\ stock_codes = <<>>
    /\ idx = 0
    /\ stats = <<>>
    /\ latest_date = NaN
    /\ today = 0
    /\ start_date = NaN
    /\ end_date = NaN
    /\ need_download = FALSE
    /\ added = 0
    /\ df_existing = None
    /\ df_new = None
    /\ df_final = None
    /\ df_other = None
    /\ remerged = None
    /\ swapped = None

\* results = pool.imap(process_func, files) without list(): process_batch
\* returns while tasks are still queued or running
imap_iterator(n, total) == TRUE

\* results = list(pool.imap(process_func, files)): the list is complete
\* when the iterator has yielded the result of every file
imap_list(n, total) == n = total

\* the processes that run process_single_file: the pool, or main itself
Workers == IF NUM_PROCESSES > 1 THEN NUM_PROCESSES ELSE 1

Finished(s) == tasks[s] \in {"success", "failed"}

InitBatch ==
    /\ NUM_PROCESSES \in 1..MaxProcesses
    /\ \E n \in 1..MaxSymbols :
          /\ tasks = [s \in 1..n |-> "queued"]
          /\ output_files \in [1..n -> {"absent", "old"}]
    /\ results = 0
    /\ reads = {}
    /\ step = "stocks"
    /\ bars = <<>>
    /\ period = 0
    /\ ind = <<>>
    /\ market = <<>>
    /\ NoDownload
    /\ NoRetry
    /\ snapshot = <<>>
    /\ first_run = <<>>
    /\ NoBackfill

BatchFrame == UNCHANGED <<NUM_PROCESSES, retryVars, snapshot, first_run, backfillVars, engineVars, files, runVars, rangeVars, mergeVars, orderVars, added>>

\* a free process takes the next file of the list
StartTask(s) ==
    /\ step = "stocks"
    /\ tasks[s] = "queued"
    /\ \A e \in 1..(s - 1) : tasks[e] # "queued"
    /\ Cardinality({e \in DOMAIN tasks : tasks[e] \in {"running", "saved"}}) < Workers
    /\ tasks' = [tasks EXCEPT ![s] = "running"]
    /\ UNCHANGED <<results, output_files, reads, step>>
    /\ BatchFrame

\* process_single_file: df.to_parquet(output_file)
SaveFile(s) ==
    /\ tasks[s] = "running"
    /\ tasks' = [tasks EXCEPT ![s] = "saved"]
    /\ output_files' = [output_files EXCEPT ![s] = "new"]
    /\ UNCHANGED <<results, reads, step>>
    /\ BatchFrame

\* process_single_file returns {'success': True}
ReturnResult(s) ==
    /\ tasks[s] = "saved"
    /\ tasks' = [tasks EXCEPT ![s] = "success"]
    /\ UNCHANGED <<results, output_files, reads, step>>
    /\ BatchFrame

\* process_single_file raised before the file was written
FailTask(s) ==
    /\ tasks[s] = "running"
    /\ tasks' = [tasks EXCEPT ![s] = "failed"]
    /\ UNCHANGED <<results, output_files, reads, step>>
    /\ BatchFrame

\* the imap iterator yields the results in the order of the files
CollectResult ==
    /\ step = "stocks"
    /\ results < Len(tasks)
    /\ Finished(results + 1)
    /\ results' = results + 1
    /\ UNCHANGED <<tasks, output_files, reads, step>>
    /\ BatchFrame

\* process_batch returns to main, which goes on with the index files
ReturnBatch ==
    /\ step = "stocks"
    /\ imap_list(results, Len(tasks))
    /\ step' = "indexes"
    /\ UNCHANGED <<tasks, results, output_files, reads>>
    /\ BatchFrame

\* the index batch, then the rating phase if a stock task succeeded
ProcessIndexes ==
    /\ step = "indexes"
    /\ step' = IF \E s \in DOMAIN tasks : tasks[s] = "success" THEN "rating" ELSE "summary"
    /\ UNCHANGED <<tasks, results, output_files, reads>>
    /\ BatchFrame

\* calculate_rs_rating_for_stocks reads one file of the output directory
ReadFile(s) ==
    /\ step = "rating"
    /\ output_files[s] # "absent"
    /\ \A r \in reads : r.file # s
    /\ reads' = reads \cup {[file |-> s, task |-> tasks[s], state |-> output_files[s]]}
    /\ UNCHANGED <<tasks, results, output_files, step>>
    /\ BatchFrame

\* every file was read: the ratings are computed and written back
WriteRatings ==
    /\ step = "rating"
    /\ \A s \in DOMAIN tasks : output_files[s] # "absent" => \E r \in reads : r.file = s
    /\ step' = "summary"
    /\ UNCHANGED <<tasks, results, output_files, reads>>
    /\ BatchFrame

NextBatch ==
    \/ \E s \in DOMAIN tasks : StartTask(s)
    \/ \E s \in DOMAIN tasks : SaveFile(s)
    \/ \E s \in DOMAIN tasks : ReturnResult(s)
    \/ \E s \in DOMAIN tasks : FailTask(s)
    \/ CollectResult
    \/ ReturnBatch
    \/ ProcessIndexes
    \/ \E s \in DOMAIN tasks : ReadFile(s)
    \/ WriteRatings

SpecBatch == InitBatch /\ [][NextBatch]_vars

\* ---- the raw K-line updater with the attempts of one download ----
\* what one upstream query can do: answer with an error code, raise (in
\* the query or while the answer is turned into a frame), or answer
AttemptOutcomes == {"error", "exception", "answer"}

\* a retry test that allows one attempt more
may_retry_inclusive(count) == count <= MAX_RETRIES

\* if retry_count < MAX_RETRIES
may_retry(count) == count < MAX_RETRIES

InitRetry ==
    /\ Init
    /\ force_full_download = FALSE

\* main up to the call of download_kline_data for stock_codes[idx]
BeginStock ==
    /\ step = "loop"
    /\ idx <= Len(stock_codes)
    /\ LET got == get_existing_data(files[stock_codes[idx]])
           r == calculate_download_range(got.latest, now)
       IN /\ df_existing' = got.df
          /\ latest_date' = got.latest
          /\ today' = now
          /\ start_date' = r.start
          /\ end_date' = r.end
          /\ need_download' = r.need
          /\ retry_count' = 0
          /\ attempts' = 0
          /\ IF ~r.need
             THEN /\ stats' = [stats EXCEPT !.skipped = @ + 1]
                  /\ idx' = idx + 1
                  /\ UNCHANGED step
             ELSE /\ step' = "download"
                  /\ UNCHANGED <<stats, idx>>
    /\ UNCHANGED <<batchVars, snapshot, first_run, backfillVars, engineVars, files, now, END_DATE, force_full_download,
                   stock_codes, df_new, df_final, orderVars, added>>

\* one activation of download_kline_data up to the test of the answer: the
\* query, then a recursive call with retry_count + 1, a return of None, or
\* the way on to the frame
Attempt ==
    /\ step = "download"
    /\ \E o \in AttemptOutcomes :
          /\ attempts' = attempts + 1
          /\ IF o = "answer"
             THEN /\ step' = "answered"
                  /\ UNCHANGED <<df_new, retry_count>>
             ELSE IF may_retry(retry_count)
             THEN /\ retry_count' = retry_count + 1
                  /\ UNCHANGED <<df_new, step>>
             ELSE /\ df_new' = None
                  /\ step' = "downloaded"
                  /\ UNCHANGED retry_count
    /\ UNCHANGED <<batchVars, snapshot, first_run, backfillVars, engineVars, files, runVars, rangeVars, df_existing,
                   df_final, orderVars, added>>

\* the rest of that activation: pd.DataFrame() for no rows, else the rows
\* with their derived fields, returned through every pending call
ReturnFrame ==
    /\ step = "answered"
    /\ \E df \in download_kline_data(start_date[1], end_date[1], now) \ {None} :
          df_new' = df
    /\ step' = "downloaded"
    /\ UNCHANGED <<otherVars, engineVars, files, runVars, rangeVars, df_existing, df_final,
                   orderVars, added>>

\* main after the download: count the failure, or merge and save
FinishStock ==
    /\ step = "downloaded"
    /\ IF df_new.kind = "None"
       THEN /\ stats' = [stats EXCEPT !.failed = @ + 1]
            /\ idx' = idx + 1
            /\ step' = "loop"
            /\ UNCHANGED <<files, df_final>>
       ELSE LET m == merge_data(df_existing, df_new)
            IN /\ df_final' = m
               /\ IF m.kind = "raise"
                  THEN /\ step' = "crashed"
                       /\ UNCHANGED <<files, stats, idx>>
                  ELSE IF IsEmpty(m)
                  THEN /\ stats' = [stats EXCEPT !.failed = @ + 1]
                       /\ idx' = idx + 1
                       /\ step' = "loop"
                       /\ UNCHANGED files
                  ELSE /\ files' = [files EXCEPT ![stock_codes[idx]] = m]
                       /\ stats' = [stats EXCEPT !.new_records = @ + Len(df_new.rows),
                                                  !.updated = @ + 1]
                       /\ idx' = idx + 1
                       /\ step' = "loop"
    /\ UNCHANGED <<otherVars, engineVars, now, END_DATE, force_full_download, stock_codes,
                   rangeVars, df_existing, df_new, orderVars, added>>

NextRetry == BeginStock \/ Attempt \/ ReturnFrame \/ FinishStock \/ Finish

\* an upstream query returns or raises, and time.sleep(RETRY_DELAY) ends
SpecRetry == InitRetry /\ [][NextRetry]_vars /\ WF_vars(Attempt)

\* ---- the daily snapshot ----
\* the bars of a symbol whose history has n days, in either order
SnapshotBars ==
    {[k \in 1..n |->
        LET d == IF descending THEN n + 1 - k ELSE k
        IN [date |-> d, close |-> Price(d), high |-> Price(d), low |-> Price(d)]] :
     n \in 1..MaxHistory, descending \in BOOLEAN}

\* a file of data/technical_indicators: the frame calculate_all_indicators
\* wrote and, once the rating phase has merged it, the rs_rating column
IndicatorFile(frame, rating) ==
    [frame |-> frame,
     rs_rating |-> [k \in 1..Len(frame.rows) |->
                      IF k = Len(frame.rows) THEN rating ELSE NaN],
     has_rating |-> rating # NaN]

\* what the directory can hold for one symbol: a file without rows, or the
\* engine's output for its bars, rated or not
SnapshotFiles ==
    {IndicatorFile(indicator_frame(<<>>), NaN)} \cup
    {IndicatorFile(calculate_all_indicators(b), rating) :
        b \in SnapshotBars, rating \in {NaN, Num(100)}}

\* row k of a file
iloc(file, symbol, k) ==
    [symbol |-> symbol,
     date |-> file.frame.rows[k].date,
     close |-> file.frame.rows[k].close,
     rs_raw |-> file.frame.rs_raw[k],
     rs_rating |-> file.rs_rating[k]]

\* an extraction that takes the first row of the file
extract_first_data(file, symbol) ==
    IF file.frame.rows = <<>> THEN <<>> ELSE <<iloc(file, symbol, 1)>>

\* extract_latest_data: None for a file without rows, else df.iloc[-1:]
extract_latest_data(file, symbol) ==
    IF file.frame.rows = <<>> THEN <<>> ELSE <<iloc(file, symbol, Len(file.frame.rows))>>

\* pd.concat(all_latest) in the order of the files
RECURSIVE concat_latest(_, _)
concat_latest(dir, n) ==
    IF n = 0 THEN <<>> ELSE concat_latest(dir, n - 1) \o extract_latest_data(dir[n], n)

\* the orders sort_values('rs_rating', ascending=False) can leave the rows
\* in: descending, NaN last, rows of equal rating in any order
sort_by_rating(rows) ==
    LET n == Len(rows)
        Before(x, y) == x.rs_rating # NaN /\ (y.rs_rating = NaN \/ RLess(y.rs_rating, x.rs_rating))
    IN {[k \in 1..n |-> rows[perm[k]]] :
          perm \in {f \in [1..n -> 1..n] :
                      /\ \A i, j \in 1..n : i # j => f[i] # f[j]
                      /\ \A i, j \in 1..n : i < j => ~Before(rows[f[j]], rows[f[i]])}}

InitSnapshot ==
    /\ market \in UNION {[1..n -> SnapshotFiles] : n \in 1..MaxSymbols}
    /\ snapshot = <<>>
    /\ step = "files"
    /\ bars = <<>>
    /\ period = 0
    /\ ind = <<>>
    /\ first_run = <<>>
    /\ NoBatch
    /\ NoRetry
    /\ NoBackfill
    /\ NoDownload

GenerateSnapshot ==
    /\ step = "files"
    /\ LET df_snapshot == concat_latest(market, Len(market))
       IN IF df_snapshot = <<>>
          THEN /\ step' = "failed"
               /\ UNCHANGED snapshot
          ELSE /\ step' = "snapshot"
               /\ IF \E s \in DOMAIN market : market[s].has_rating /\ market[s].frame.rows # <<>>
                  THEN snapshot' \in sort_by_rating(df_snapshot)
                  ELSE snapshot' = df_snapshot
    /\ UNCHANGED <<batchVars, retryVars, first_run, backfillVars, engineVars, files, runVars,
                   rangeVars, mergeVars, orderVars, added>>

NextSnapshot == GenerateSnapshot

SpecSnapshot == InitSnapshot /\ [][NextSnapshot]_vars

\* ---- the raw K-line updater run twice on the same day ----
\* what download_kline_data returns when the upstream answers the query
answered_download(start, end, t) ==
    LET data_list == query_history_k_data_plus(start, end, t)
    IN IF data_list = <<>> THEN EmptyDataFrame
       ELSE calculate_derived_fields(DataFrame("str", data_list))

\* one pass of the loop with an upstream that answers
ProcessStockAnswered ==
    /\ ProcessStock
    /\ need_download' => df_new' = answered_download(start_date'[1], end_date'[1], now)

\* the script is started again: same day, same clock, same upstream
RunAgain ==
    /\ step = "done"
    /\ first_run = <<>>
    /\ first_run' = files
    /\ stock_codes' = get_stock_list(files)
    /\ idx' = 1
    /\ stats' = [total |-> Len(get_stock_list(files)), updated |-> 0, skipped |-> 0,
                  failed |-> 0, new_records |-> 0]
    /\ step' = "loop"
    /\ UNCHANGED <<batchVars, retryVars, snapshot, backfillVars, engineVars, files, now,
                   END_DATE, force_full_download, rangeVars, mergeVars, orderVars, added>>

NextRerun == ProcessStockAnswered \/ Finish \/ RunAgain

SpecRerun == Init /\ [][NextRerun]_vars

\* ---- the row-store backfill: update_daily_bars ----
\* the "safe genesis date" returned for an empty table
GENESIS_DATE == HistoryStart

\* the symbols of stocks_info
valid_symbols == 1..MaxSymbols

\* records per upsert call; 2 stands for the 500 of the script, so that
\* the records of one date need more than one call
batch_size == 2

\* the keys of the bars the upstream has for the dates from..to
UpstreamBars(from, to) ==
    {<<symbol, d>> : symbol \in valid_symbols, d \in {e \in from..to : IsTradingDay(e)}}

\* get_last_date_from_db: the newest date of the table, or the genesis date
get_last_date_from_db(table) ==
    IF table = {} THEN GENESIS_DATE ELSE MaxOf({r[2] : r \in table})

\* the records the inner loop collects for one date, in symbol order
fetch_records(d) ==
    IF IsTradingDay(d) THEN [k \in 1..MaxSymbols |-> <<k, d>>] ELSE <<>>

InitBackfill ==
    /\ today \in RunDays
    /\ daily_bars \in {{}} \cup
          {UpstreamBars(HistoryStart, last) : last \in (today - MaxBackfill)..today}
    /\ date_to_process = 0
    /\ records_for_today = <<>>
    /\ runs = 0
    /\ step = "start"
    /\ start_date = NaN
    /\ idx = 0
    /\ files = <<>>
    /\ now = 0
    /\ END_DATE = 0
    /\ force_full_download = FALSE
    /\ stock_codes = <<>>
    /\ stats = <<>>
    /\ latest_date = NaN
    /\ end_date = NaN
    /\ need_download = FALSE
    /\ added = 0
    /\ df_existing = None
    /\ df_new = None
    /\ df_final = None
    /\ df_other = None
    /\ remerged = None
    /\ swapped = None
    /\ bars = <<>>
    /\ period = 0
    /\ ind = <<>>
    /\ market = <<>>
    /\ NoBatch
    /\ NoRetry
    /\ snapshot = <<>>
    /\ first_run = <<>>

BackfillFrame ==
    UNCHANGED <<batchVars, retryVars, snapshot, first_run, engineVars, files, runVars,
                latest_date, today, end_date, need_download, mergeVars, orderVars, added>>

\* main up to the loop: the job is started, for the first time or again
\* after it was interrupted
StartJob ==
    /\ step \in {"start", "interrupted"}
    /\ LET first == get_last_date_from_db(daily_bars) + 1
       IN /\ date_to_process' = first
          /\ start_date' = IF runs = 0 THEN <<first>> ELSE start_date
          /\ step' = IF first > today THEN "finished" ELSE "fetch"
    /\ runs' = runs + 1
    /\ records_for_today' = <<>>
    /\ UNCHANGED daily_bars
    /\ BackfillFrame

\* the loop over the symbols for date_to_process; a date without records
\* is passed over
FetchDate ==
    /\ step = "fetch"
    /\ LET records == fetch_records(date_to_process)
       IN IF records = <<>>
          THEN /\ date_to_process' = date_to_process + 1
               /\ step' = IF date_to_process + 1 > today THEN "finished" ELSE "fetch"
               /\ UNCHANGED records_for_today
          ELSE /\ records_for_today' = records
               /\ step' = "upsert"
               /\ UNCHANGED date_to_process
    /\ UNCHANGED <<daily_bars, runs, start_date>>
    /\ BackfillFrame

\* supabase.table('daily_bars').upsert(batch) for the next batch_size
\* records; after the last batch the loop moves to the next date
UpsertBatch ==
    /\ step = "upsert"
    /\ LET n == Len(records_for_today)
           batch == {records_for_today[k] : k \in 1..(IF n < batch_size THEN n ELSE batch_size)}
           rest == SubSeq(records_for_today, batch_size + 1, n)
       IN /\ daily_bars' = daily_bars \cup batch
          /\ records_for_today' = rest
          /\ IF rest = <<>>
             THEN /\ date_to_process' = date_to_process + 1
                  /\ step' = IF date_to_process + 1 > today THEN "finished" ELSE "fetch"
             ELSE UNCHANGED <<date_to_process, step>>
    /\ UNCHANGED <<runs, start_date>>
    /\ BackfillFrame

\* the first run is stopped: between two symbols of a date, or between
\* two upsert calls
Interrupt ==
    /\ step \in {"fetch", "upsert"}
    /\ runs = 1
    /\ step' = "interrupted"
    /\ UNCHANGED <<backfillVars, start_date>>
    /\ BackfillFrame

NextBackfill == StartJob \/ FetchDate \/ UpsertBatch \/ Interrupt

SpecBackfill == InitBackfill /\ [][NextBackfill]_vars

\* ---- the raw K-line updater run once a day ----
\* the first run of the series: after the close of one of the run days
InitDaily ==
    /\ Init
    /\ AfterClose(now)

\* the script is started on the next calendar day, after the close
NextDay ==
    /\ step = "done"
    /\ DateOf(now) + 1 \in RunDays
    /\ now' = now + TicksPerDay
    /\ END_DATE' = DateOf(now + TicksPerDay)
    /\ stock_codes' = get_stock_list(files)
    /\ idx' = 1
    /\ stats' = [total |-> Len(get_stock_list(files)), updated |-> 0, skipped |-> 0,
                  failed |-> 0, new_records |-> 0]
    /\ step' = "loop"
    /\ UNCHANGED <<otherVars, engineVars, files, force_full_download, rangeVars, mergeVars,
                   orderVars, added>>

NextDaily == ProcessStockAnswered \/ Finish \/ NextDay

SpecDaily == InitDaily /\ [][NextDaily]_vars

\* ---- claims about merge_data ----
StrictlyAscending(rows) == \A i \in 1..(Len(rows) - 1) : rows[i].date < rows[i + 1].date

\* the rows of df dated on day d
RowsOn(df, d) == {i \in 1..Len(df.rows) : DayOf(df, df.rows[i]) = d}

\* the last row of df dated on day d
LastOn(df, d) == df.rows[CHOOSE i \in RowsOn(df, d) : \A j \in RowsOn(df, d) : j <= i]

\* C1: merging the same new series into the merge result a second time
\* gives exactly the rows of the first merge.
C1_MergeIdempotent == step = "again" => remerged = df_final

\* C2: the series merge_data returns is ascending by date and holds each
\* date at most once.
C2_MergeShape == (step = "merged" /\ df_final.kind = "df") => StrictlyAscending(df_final.rows)

\* C3: a date that the stored and the new series both have with differing
\* fetched values comes out once, with the values of the new series, and
\* the merge does not raise.
Conflicts ==
    {d \in Days(df_existing) \cap Days(df_new) :
        \E i \in RowsOn(df_existing, d), j \in RowsOn(df_new, d) :
            df_existing.rows[i].close # df_new.rows[j].close}

C3_NewWins ==
    step = "merged" =>
        \A d \in Conflicts :
            /\ df_final.kind = "df"
            /\ Cardinality(RowsOn(df_final, d)) = 1
            /\ LastOn(df_final, d).close = LastOn(df_new, d).close

C3_Witness == step = "merged" /\ Conflicts # {} /\ df_final.kind = "df"

\* C4: a date of the stored series that the new series lacks is in the
\* result with its stored fetched values.
C4_PreservesHistory ==
    step = "merged" =>
        \A d \in Days(df_existing) \ Days(df_new) :
            /\ df_final.kind = "df"
            /\ RowsOn(df_final, d) # {}
            /\ \A i \in RowsOn(df_final, d) :
                   \E j \in RowsOn(df_existing, d) :
                       df_final.rows[i].close = df_existing.rows[j].close

C4_Witness ==
    /\ step = "merged"
    /\ df_new.kind = "df"
    /\ Days(df_existing) \ Days(df_new) # {}
    /\ Days(df_existing) \cap Days(df_new) # {}

\* C5: two windows that share no date give the same stored series
\* whichever is merged first.
C5_OrderIndependent == step = "other_new" => remerged = swapped

\* ---- claims about the range resolver and the run of the raw updater ----
\* the locals describe a pass of the loop
HasResolved == today > 0

\* that pass found stored rows and the run does not force a full download
Incremental == HasResolved /\ ~force_full_download /\ latest_date # NaN

\* the gap calculate_download_range measures, in whole days
GapDays == DateOf(today) - latest_date[1]

C8_LookbackWindow ==
    (Incremental /\ need_download) =>
        /\ GapDays > min_gap_days
        /\ start_date = <<latest_date[1] - lookback_days>>
        /\ end_date = <<END_DATE>>
        /\ (lookback_days = 10 /\ latest_date[1] = END_DATE - 5)
               => start_date = <<END_DATE - 15>>

C8_Witness ==
    /\ Incremental
    /\ need_download
    /\ latest_date[1] = END_DATE - 5
    /\ start_date = <<END_DATE - 15>>

\* the pass ran on a non-trading day and the stored history ends on the
\* last trading day before it, so the upstream has no newer bar
NoNewerBar ==
    /\ Incremental
    /\ ~IsTradingDay(DateOf(today))
    /\ latest_date[1] = LastTradingDayBefore(DateOf(today))

\* a step of ProcessStock
Processes == step = "loop" /\ (idx' = idx + 1 \/ step' = "crashed")

\* C9: on a non-trading day with the stored history ending on the
\* last trading day, the resolver reports "skip", the run does not raise and
\* the symbol is counted neither as updated nor as failed.
C9_SkipOnNonTradingDay ==
    [][(Processes /\ NoNewerBar') =>
          /\ ~need_download'
          /\ step' # "crashed"
          /\ stats'.updated = stats.updated
          /\ stats'.failed = stats.failed]_vars

\* ---- claims about the other updaters ----
\* C6: after update_or_append on a symbol whose file already exists, the
\* file holds, for every date of new_data, exactly one row and it is
\* new_data's row, also when new_data brings no date that was not stored.
C6_UpsertKeepsNewest ==
    (step = "upserted" /\ df_existing.kind # "None") =>
        \A d \in Days(df_new) :
            /\ Cardinality(RowsOn(files[stock_codes[1]], d)) = 1
            /\ LastOn(files[stock_codes[1]], d) = LastOn(df_new, d)

\* a step of ProcessQfq or ProcessHfq
ProcessesAdjusted ==
    /\ step \in AdjustTypes
    /\ step' \in (AdjustTypes \cup {"crashed"}) \ {step}

\* C10: for a symbol without a stored file the resolver returns the window
\* from DEFAULT_START_DATE to END_DATE, and when the download for it is not
\* empty the run does not raise and the symbol's file then holds exactly
\* the downloaded dates.
C10_ColdStartBackfill ==
    [][(ProcessesAdjusted /\ latest_date' = NaN) =>
          /\ need_download'
          /\ start_date' = <<DEFAULT_START_DATE>>
          /\ end_date' = <<END_DATE>>
          /\ (df_new'.kind = "df" /\ ~IsEmpty(df_new')) =>
                 /\ step' # "crashed"
                 /\ files'[<<step, stock_codes[idx]>>].kind = "df"
                 /\ Days(files'[<<step, stock_codes[idx]>>]) = Days(df_new')]_vars

\* ---- claims about the indicator functions ----
\* the sum of the closes of the w bars that end at position k
RECURSIVE TrailingCloses(_, _)
TrailingCloses(k, w) == IF w = 0 THEN 0 ELSE bars[k].close + TrailingCloses(k - 1, w - 1)

\* C11: for every window and every series, the column calculate_ma builds
\* is null at the first w-1 positions and is the arithmetic mean of the
\* trailing w closes from position w on; with exactly 5 bars ma20 is null
\* on all 5 rows.
C11_MaWarmUp ==
    step = "ma" =>
        /\ Len(ind) = Len(bars)
        /\ \A k \in 1..Len(bars) :
              IF k < period THEN ind[k] = NaN
              ELSE /\ ind[k] # NaN
                   /\ ind[k][1] * period = ind[k][2] * TrailingCloses(k, period)
        /\ (Len(bars) = 5 /\ period = 20) => \A k \in 1..5 : ind[k] = NaN

C11_Witness ==
    /\ step = "ma"
    /\ period < Len(bars)
    /\ ind[period - 1] = NaN
    /\ ind[Len(bars)] # NaN

\* the window length of the moving-average fields of the worker
field_window == [ma5 |-> 5, ma10 |-> 10, ma20 |-> 20, ma60 |-> 60]

\* C12: in the record the MyTT worker upserts for the target date, each
\* windowed field is populated exactly when the symbol has at least that
\* field's window length of bars, whatever the other fields need.
C12_FieldPopulatedIffWindow ==
    step = "mytt" =>
        \A col \in DOMAIN field_window :
            col \in DOMAIN ind <=> Len(bars) >= field_window[col]

\* C14: the column calculate_rsi builds for window w is null at every
\* position with fewer than w close-to-close deltas behind it, that is at
\* the first w positions of the series.
C14_RsiWarmUp ==
    step = "rsi" => \A k \in 1..Len(bars) : k <= period => ind[k] = NaN

\* the w deltas that end at position k exist and none of them is a loss
NoLossWindow(k) ==
    /\ k > period
    /\ \A j \in Window(k, period) : bars[j].close >= bars[j - 1].close

\* C15: at every position with a full window whose average loss is zero,
\* with gains in the window or with flat prices, calculate_rsi yields 100,
\* never NaN.
C15_RsiZeroLoss ==
    step = "rsi" => \A k \in 1..Len(bars) : NoLossWindow(k) => ind[k] = Num(100)

\* the highest high and the lowest low of the window that ends at k
HighOf(k) == CHOOSE h \in Prices :
    /\ \E j \in Window(k, period) : bars[j].high = h
    /\ \A j \in Window(k, period) : bars[j].high <= h
LowOf(k) == CHOOSE l \in Prices :
    /\ \E j \in Window(k, period) : bars[j].low = l
    /\ \A j \in Window(k, period) : bars[j].low >= l

ZeroRange(k) == k >= period /\ HighOf(k) = LowOf(k)
HasRange(k) == k >= period /\ HighOf(k) > LowOf(k)

Finite(x) == x # NaN /\ x # Inf

\* C16: at a position whose rolling max of high equals the rolling min of
\* low, calculate_kdj emits null K, D and J, and at every later position
\* with a range K, D and J are finite.
C16_KdjZeroRange ==
    step = "kdj" =>
        \A k \in 1..Len(bars) :
            /\ ZeroRange(k) =>
                  ind.kdj_k[k] = NaN /\ ind.kdj_d[k] = NaN /\ ind.kdj_j[k] = NaN
            /\ (HasRange(k) /\ \E z \in 1..(k - 1) : ZeroRange(z)) =>
                  Finite(ind.kdj_k[k]) /\ Finite(ind.kdj_d[k]) /\ Finite(ind.kdj_j[k])

\* C17: the rolling high and low are null at every position with fewer
\* bars than the window behind it and are the max of high and the min of
\* low over exactly the trailing window otherwise.
C17_ExtremesNeedFullWindow ==
    step = "range" =>
        \A k \in 1..Len(bars) :
            IF k < period THEN ind.high[k] = NaN /\ ind.low[k] = NaN
            ELSE ind.high[k] = Num(HighOf(k)) /\ ind.low[k] = Num(LowOf(k))

C17_Witness ==
    /\ step = "range"
    /\ period < Len(bars)
    /\ ind.high[period - 1] = NaN
    /\ ind.low[period - 1] = NaN
    /\ ind.high[Len(bars)] # ind.high[Len(bars) - 1]
    /\ ind.low[Len(bars)] # NaN

\* the return over the i-th horizon at position k, times its weight
WeightedReturn(k, i) ==
    RMul(rs_weights[i],
         RSub(Frac(bars[k].close, bars[k - rs_periods[i]].close), Num(1)))

\* C18: rs_raw at a position is not null exactly when the returns over all
\* four horizons are available, that is when the longest horizon has that
\* many prior bars, and it is then the weighted sum of all four returns.
C18_RsRawNullPolicy ==
    step = "rs_raw" =>
        \A k \in 1..Len(bars) :
            IF \A i \in 1..4 : k > rs_periods[i]
            THEN ind[k] = RAdd(RAdd(WeightedReturn(k, 1), WeightedReturn(k, 2)),
                               RAdd(WeightedReturn(k, 3), WeightedReturn(k, 4)))
            ELSE ind[k] = NaN

C18_Witness ==
    /\ step = "rs_raw"
    /\ Len(bars) > period
    /\ ind[Len(bars)] # NaN
    /\ ind[Len(bars)] # Num(0)
    /\ ind[period] = NaN

\* every column of the frame has one entry per row
ColumnsComplete(frame) ==
    /\ \A p \in ma_periods : Len(frame.ma[p]) = Len(frame.rows)
    /\ \A p \in rsi_periods : Len(frame.rsi[p]) = Len(frame.rows)
    /\ \A n \in kdj_periods : Len(frame.kdj_k[n]) = Len(frame.rows)
    /\ \A p \in range_periods :
          Len(frame.high[p]) = Len(frame.rows) /\ Len(frame.low[p]) = Len(frame.rows)
    /\ Len(frame.rs_raw) = Len(frame.rows)

\* a field is null wherever fewer bars than its window lie behind the row
UnavailableNull(frame) ==
    \A k \in 1..Len(frame.rows) :
        /\ \A p \in ma_periods : k < p => frame.ma[p][k] = NaN
        /\ \A p \in rsi_periods : k < p => frame.rsi[p][k] = NaN
        /\ \A n \in kdj_periods : k < n => frame.kdj_k[n][k] = NaN
        /\ \A p \in range_periods :
              k < p => frame.high[p][k] = NaN /\ frame.low[p][k] = NaN
        /\ k <= rs_periods[Len(rs_periods)] => frame.rs_raw[k] = NaN

Ranked(d) == {s \in DOMAIN ind : ind[s].rows[d].rs_raw # NaN}

\* the symbols of Ranked(d) whose rs_raw is strictly smaller than that of s
Below(d, s) == {t \in Ranked(d) : RLess(ind[t].rows[d].rs_raw, ind[s].rows[d].rs_raw)}

Rating(d, s) == market[s].rows[d].rs_rating

\* C19 as stated: over the N symbols with rs_raw on a date, the rating of a
\* symbol is 100 * (1 + number of symbols with strictly smaller rs_raw) / N.
C19_MinRankRating ==
    step = "rated" =>
        \A d \in RankDates : \A s \in Ranked(d) :
            /\ Rating(d, s) # NaN
            /\ Rating(d, s)[1] * Cardinality(Ranked(d))
                   = Rating(d, s)[2] * 100 * (1 + Cardinality(Below(d, s)))

\* ten times the value of a float that has one decimal
Tenths(x) == (x[1] * 10) \div x[2]

\* C19: over the N symbols with rs_raw on a date, the rating of a symbol is
\* 100 * (1 + number of symbols with strictly smaller rs_raw) / N rounded
\* to one decimal; equal rs_raw values get the same rating, a maximum that
\* no other symbol shares gets 100, and with two symbols tied at 0.05 and a
\* third at 0.10 the tied pair share the rating 33.3 and the third gets 100.
C19_MinRankRatingRounded ==
    step = "rated" =>
        \A d \in RankDates : \A s \in Ranked(d) :
            LET N == Cardinality(Ranked(d))
                exact == 1000 * (1 + Cardinality(Below(d, s)))
            IN /\ Rating(d, s) # NaN
               /\ 10 % Rating(d, s)[2] = 0
               /\ 2 * Abs(Tenths(Rating(d, s)) * N - exact) <= N
               /\ \A t \in Ranked(d) :
                     ind[t].rows[d].rs_raw = ind[s].rows[d].rs_raw
                         => Rating(d, t) = Rating(d, s)
               /\ Below(d, s) = Ranked(d) \ {s} => Rating(d, s) = Num(100)
               /\ (/\ N = 3
                   /\ ind[s].rows[d].rs_raw = Frac(5, 100)
                   /\ Cardinality(Below(d, s)) = 0
                   /\ (\E t \in Ranked(d) : ind[t].rows[d].rs_raw = Frac(10, 100))
                   /\ (\E u \in Ranked(d) \ {s} : ind[u].rows[d].rs_raw = Frac(5, 100)))
                     => Rating(d, s) = Frac(333, 10)

C19_Witness ==
    /\ step = "rated"
    /\ \E d \in RankDates :
          /\ Cardinality(Ranked(d)) = 3
          /\ \E s, t, u \in Ranked(d) :
                /\ s # t
                /\ ind[s].rows[d].rs_raw = Frac(5, 100)
                /\ ind[t].rows[d].rs_raw = Frac(5, 100)
                /\ ind[u].rows[d].rs_raw = Frac(10, 100)
                /\ Rating(d, s) = Rating(d, t)
                /\ Rating(d, u) = Num(100)

\* C20: after the ranking phase every row whose rs_raw is null has a null
\* rs_rating, never 0 or another default, and every row whose rs_raw is
\* non-null has a rating between 0 and 100.
C20_NullRawKeepsNullRating ==
    step = "rated" =>
        \A s \in DOMAIN market : \A d \in RankDates :
            LET row == market[s].rows[d]
            IN IF row.rs_raw = NaN THEN row.rs_rating = NaN
               ELSE /\ row.rs_rating # NaN
                    /\ ~RLess(row.rs_rating, Num(0))
                    /\ ~RLess(Num(100), row.rs_rating)

C20_Witness ==
    /\ step = "rated"
    /\ \E s \in DOMAIN market : \E d, e \in RankDates :
          /\ market[s].has_rating
          /\ market[s].rows[d].rs_raw = NaN
          /\ market[s].rows[d].rs_rating = NaN
          /\ market[s].rows[e].rs_raw # NaN
          /\ market[s].rows[e].rs_rating # NaN
    /\ \E t \in DOMAIN market :
          /\ ~market[t].has_rating
          /\ \A d \in RankDates : market[t].rows[d].rs_rating = NaN

\* ---- claims about the full recalculation ----
\* C21: the rating phase reads no indicator file until every indicator task
\* of the batch has finished, and the file of every task that succeeded is
\* the one that task wrote.
C21_RankerBarrier ==
    \A r \in reads :
        /\ \A s \in DOMAIN tasks : Finished(s)
        /\ r.task = "success" => r.state = "new"
        /\ r.task \in {"success", "failed"}

C21_Witness ==
    /\ NUM_PROCESSES > 1
    /\ step = "summary"
    /\ Cardinality(reads) = MaxSymbols
    /\ \E r \in reads : r.task = "failed" /\ r.state = "old"
    /\ \E r \in reads : r.task = "success" /\ r.state = "new"

\* ---- claims about the retries of a download ----
\* C22: download_kline_data makes at most MAX_RETRIES + 1 upstream attempts
\* for one symbol whatever the upstream does, its retries come to an end, it
\* returns None exactly when the attempts are exhausted, and main then counts
\* the symbol as failed.
C22_BoundedRetry ==
    /\ [](attempts <= MAX_RETRIES + 1)
    /\ [](step = "download" => attempts = retry_count /\ attempts <= MAX_RETRIES)
    /\ [](step = "downloaded" /\ df_new = None => attempts = MAX_RETRIES + 1)
    /\ (step = "download" ~> step \in {"answered", "downloaded"})
    /\ [][(step = "downloaded" /\ df_new = None)
              => (stats'.failed = stats.failed + 1 /\ idx' = idx + 1)]_vars

C22_Witness ==
    /\ step = "loop"
    /\ attempts = MAX_RETRIES + 1
    /\ retry_count = MAX_RETRIES
    /\ df_new = None
    /\ stats.failed > 0

\* ---- claims about the update loop ----
\* C23: whatever the outcome of one symbol is, the loop goes on with the
\* next symbol and the run reaches its summary: no symbol aborts the batch.
C23_FailureContained == step # "crashed"

Counted == stats.updated + stats.skipped + stats.failed

\* C29: at every point of the update loop each processed symbol has been
\* counted in exactly one of updated, skipped and failed, so their sum is
\* the number of symbols processed so far, and the total at the end of a
\* completed run.
C29_SummaryPartitions ==
    /\ Counted = idx - 1
    /\ step = "done" => Counted = stats.total /\ stats.total = Len(stock_codes)

C29_Witness ==
    /\ step = "done"
    /\ stats.total = 2
    /\ stats.updated = 1
    /\ stats.failed = 1

\* ---- claims about the snapshot ----
\* the dates of the rows of a file
FileDates(file) == {file.frame.rows[k].date : k \in 1..Len(file.frame.rows)}

\* C24: the snapshot has exactly one row for every symbol whose indicator
\* file has rows and none for the others, and that row is the row of the
\* file with the maximum date, with its own date.
C24_SnapshotProjection ==
    step = "snapshot" =>
        /\ \A k \in 1..Len(snapshot) :
              /\ snapshot[k].symbol \in DOMAIN market
              /\ market[snapshot[k].symbol].frame.rows # <<>>
        /\ \A s \in DOMAIN market :
              market[s].frame.rows # <<>> =>
                  /\ Cardinality({k \in 1..Len(snapshot) : snapshot[k].symbol = s}) = 1
                  /\ \E k \in 1..Len(snapshot) : \E j \in 1..Len(market[s].frame.rows) :
                        /\ snapshot[k] = iloc(market[s], s, j)
                        /\ snapshot[k].date = MaxOf(FileDates(market[s]))

C24_Witness ==
    /\ step = "snapshot"
    /\ \E j, k \in 1..Len(snapshot) : snapshot[j].date < snapshot[k].date
    /\ \E s \in DOMAIN market : market[s].frame.rows = <<>>
    /\ \E k \in 1..Len(snapshot) : snapshot[k].date > 1

\* ---- claims about running the updater again ----
\* C25: when the incremental download is run twice for the same date
\* against an unchanged upstream, the stored series of every symbol after
\* the second run equals the one after the first run.
C25_RerunIsNoOp ==
    (step = "done" /\ first_run # <<>>) => files = first_run

C25_Witness ==
    /\ step = "done"
    /\ first_run # <<>>
    /\ stats.updated > 0
    /\ \E c \in Codes : files[c].kind = "df" /\ Len(files[c].rows) > 1

\* ---- claims about the derived fields ----
\* every row after the first has a 昨收, and 涨跌额 = 收盘 - 昨收 on it
PrecloseComplete(df) ==
    df.kind = "df" =>
        \A k \in 2..Len(df.rows) :
            /\ df.rows[k].pc # NaN
            /\ df.rows[k].chg = <<df.rows[k].close - df.rows[k].pc[1]>>

\* C26: after any sequence of merges into a symbol's series, also when rows
\* that carry an upstream 昨收 are merged into stored rows that lack one,
\* every row except the earliest has a non-null 昨收 and 涨跌额 = 收盘 - 昨收.
C26_PrecloseOnlyFirstNull ==
    /\ step \in {"merged", "again"} => PrecloseComplete(df_final)
    /\ step = "again" => PrecloseComplete(remerged)

\* ---- claims about the row-store backfill ----
\* C27: when a run of update_daily_bars is interrupted at any point and the
\* job is run again, then after the second run every bar the upstream has
\* from the original start date up to today is in daily_bars.
C27_SafeResume ==
    (step = "finished" /\ runs = 2) => UpstreamBars(start_date[1], today) \subseteq daily_bars

\* ---- claims about the write-back of the ratings ----
\* a row without its rating
WithoutRating(row) == [date |-> row.date, rs_raw |-> row.rs_raw]

\* C28: the rating phase leaves the rows of every file and their order as
\* they were and changes no field other than rs_rating, also when the file
\* had an rs_rating column already and when the symbol has no ranked date.
C28_WriteBackOnlyRating ==
    step = "rated" =>
        \A s \in DOMAIN market :
            /\ Len(market[s].rows) = Len(ind[s].rows)
            /\ \A k \in 1..Len(ind[s].rows) :
                  k <= Len(market[s].rows) =>
                      WithoutRating(market[s].rows[k]) = WithoutRating(ind[s].rows[k])

C28_Witness ==
    /\ step = "rated"
    /\ \E s \in DOMAIN market :
          /\ ind[s].has_rating
          /\ \E d \in RankDates : market[s].rows[d].rs_rating # NaN
          /\ \E d \in RankDates : market[s].rows[d].rs_rating = NaN
    /\ \E t \in DOMAIN market : ~market[t].has_rating

\* ---- claims about daily runs ----
\* the days of the rows of a stored file
StoredDays(file) == {file.rows[k].date : k \in 1..Len(file.rows)}

\* C30: with one run a day after the close and downloads that succeed, at
\* the end of the run of a day the file of every symbol that has one holds
\* the bar of every trading day before that day: the bar of day d is stored
\* no later than the end of the run on day d + 1.
C30_BoundedStaleness ==
    step = "done" =>
        \A c \in Codes :
            (files[c].kind = "df" /\ files[c].rows # <<>>) =>
                \A d \in HistoryStart..(END_DATE - 1) :
                    IsTradingDay(d) => d \in StoredDays(files[c])

C30_Witness ==
    /\ step = "done"
    /\ stats.skipped > 0
    /\ \E c \in Codes :
          /\ files[c].kind = "df"
          /\ files[c].rows # <<>>
          /\ IsTradingDay(END_DATE)
          /\ END_DATE \notin StoredDays(files[c])
          /\ END_DATE - 1 \in StoredDays(files[c])
====
